---- MODULE Spec2Model ----
(***************************************************************************)
(* Model of main() of src/main.py: a script that provisions the Pinecone   *)
(* index "example-index", waits until it is ready, embeds a list of        *)
(* sentences, upserts them, queries once and deletes the index.            *)
(*                                                                         *)
(* The remote provider is shared state.  Several invocations of the script *)
(* (Runs) execute main() against the same provider and interleave at the   *)
(* granularity of remote calls.  The provider follows the Pinecone control *)
(* plane: create_index of an existing name is rejected (409), and          *)
(* describe_index, upsert, describe_index_stats, query and delete_index of *)
(* a missing index are rejected (404).  Every call can also fail for       *)
(* transport reasons; main() catches nothing, so any exception ends the    *)
(* run where it is raised.                                                 *)
(***************************************************************************)
EXTENDS Integers, Sequences, FiniteSets, TLC

\* ------------------------------------------------------------------ bounds
\* longest sentences_to_index list explored
MaxRecords == 2
\* the spec's maxWait expressed in polls (maxWait / pollInterval)
MaxWaitPolls == 2
\* the count of not-ready polls saturates here (the loop itself goes on)
PollCap == MaxWaitPolls

\* ------------------------------------------------------- program constants
\* embedding dimension produced by the SentenceTransformer model
ModelDim == 768
\* dimension= argument of create_index
Dimension == 768
\* top_k= argument of query
TopK == 3

index_name == "example-index"

\* concurrent invocations of the script
Runs == {"r1", "r2"}

\* records the literal list may hold (id, text)
Records ==
    { [id |-> "vector1", text |-> "s1"],
      [id |-> "vector2", text |-> "s2"] }

RECURSIVE SeqsUpTo(_, _)
SeqsUpTo(S, n) ==
    IF n = 0 THEN { <<>> }
    ELSE LET shorter == SeqsUpTo(S, n - 1)
         IN  shorter \cup { Append(s, x) : s \in { t \in shorter : Len(t) = n - 1 }, x \in S }

\* dimensions an index that was created by somebody else may have
PreexistingDims == { 768, 1536 }

\* contents of the namespace of an index created by somebody else
PreexistingRecords ==
    { {},
      { [id |-> "vector1", sentence |-> "old"], [id |-> "other", sentence |-> "theirs"] } }

VARIABLES
    index,          \* provider: the index named index_name
    provisioned,    \* history: a run saw the current index ready, no delete since
    sentences_to_index,
    pc,             \* per run: the statement main() is at
    hasIdx,         \* per run: what has_index returned
    idx,            \* per run: position of the for loop over sentences_to_index
    vector_data,    \* per run
    handle,         \* per run: name bound by pc.Index
    matches,        \* per run: number of matches of query_result
    polls,          \* per run, history: not-ready polls of the wait in progress (saturating)
    calls,          \* per run, history: remote calls issued, repeated polls collapsed
    failedAt,       \* per run: statement whose exception ended the run
    err,            \* per run: the exception
    seen,           \* per run, history: facts observed when calls were issued
    written         \* per run, history: records this run's upsert stored

vars == << index, provisioned, sentences_to_index, pc, hasIdx, idx, vector_data,
           handle, matches, polls, calls, failedAt, err, seen, written >>

Absent ==
    [ exists |-> FALSE, ready |-> FALSE, dimension |-> 0, records |-> {}, creator |-> "none" ]

NoSeen ==
    [ provisionedAtHas |-> FALSE, waited |-> FALSE, readyPoll |-> FALSE, upsertDim |-> 0,
      deletedCreator |-> "none", deletedRecords |-> {} ]

\* ---------------------------------------------------------------- helpers

\* model.encode(text).tolist(): a vector of the model's dimension, determined by the text
Encode(text) == [ dim |-> ModelDim, of |-> text ]

\* line 72: the dictionary built for one sentence
VectorInfo(sentence) ==
    [ id |-> sentence.id, values |-> Encode(sentence.text), sentence |-> sentence.text ]

\* line 75: vector_data.append(vector_info)
AppendVector_Prepend(data, info) == << info >> \o data

AppendVector(data, info) == Append(data, info)

\* line 27: if not pc.has_index(index_name)
AfterHasIndex_AlwaysCreate(found) == "create_index"

AfterHasIndex(found) == IF found THEN "describe_index" ELSE "create_index"

\* line 44: while not pc.describe_index(index_name).status['ready']
AfterPoll_NoWait(ready) == "list_indexes2"

AfterPoll_NeverExit(ready) == "describe_index"

AfterPoll(ready) == IF ready THEN "list_indexes2" ELSE "describe_index"

\* line 67: the for loop runs its body while sentences remain, then falls through to line 79
AfterEmbed(k) == IF k < Len(sentences_to_index) THEN "encode" ELSE "upsert"

\* the provider's create-or-replace of a batch, keyed by id; a later entry of
\* the batch replaces an earlier one with the same id
RECURSIVE UpsertRecords(_, _)
UpsertRecords(stored, batch) ==
    IF batch = <<>> THEN stored
    ELSE LET v == Head(batch)
         IN  UpsertRecords({ s \in stored : s.id # v.id }
                              \cup { [id |-> v.id, sentence |-> v.sentence] },
                           Tail(batch))

RECURSIVE BatchDims(_)
BatchDims(batch) ==
    IF batch = <<>> THEN {} ELSE { Head(batch).values.dim } \cup BatchDims(Tail(batch))

Min(a, b) == IF a < b THEN a ELSE b

\* the log of remote calls, consecutive describe_index polls counted once
Logged(log, call) ==
    IF log # <<>> /\ log[Len(log)] = call /\ call = "describe_index" THEN log
    ELSE Append(log, call)

\* statements of main() that issue a remote call, and the call they issue
RemoteCall(stmt) ==
    CASE stmt = "list_indexes1" -> "list_indexes"
      [] stmt = "list_indexes2" -> "list_indexes"
      [] stmt = "stats" -> "describe_index_stats"
      [] OTHER -> stmt

RemoteStmts ==
    { "list_indexes1", "has_index", "create_index", "describe_index", "list_indexes2",
      "upsert", "stats", "query", "delete_index" }

\* statements that call the embedding model
LocalStmts == { "encode", "encode_query" }

\* an uncaught exception leaves main(): the run is over, nothing after the
\* raising statement executes
Raise_SkipRecord(r, error) ==
    /\ pc' = [pc EXCEPT ![r] = IF pc[r] = "encode" THEN "upsert" ELSE "failed"]
    /\ failedAt' = [failedAt EXCEPT ![r] = pc[r]]
    /\ err' = [err EXCEPT ![r] = error]
    /\ calls' = [calls EXCEPT ![r] =
                    IF pc[r] \in RemoteStmts THEN Logged(@, RemoteCall(pc[r])) ELSE @]

Raise_Cleanup(r, error) ==
    /\ pc' = [pc EXCEPT ![r] =
                IF pc[r] \in { "upsert", "stats", "query" } THEN "delete_index" ELSE "failed"]
    /\ failedAt' = [failedAt EXCEPT ![r] = pc[r]]
    /\ err' = [err EXCEPT ![r] = error]
    /\ calls' = [calls EXCEPT ![r] =
                    IF pc[r] \in RemoteStmts THEN Logged(@, RemoteCall(pc[r])) ELSE @]

Raise(r, error) ==
    /\ pc' = [pc EXCEPT ![r] = "failed"]
    /\ failedAt' = [failedAt EXCEPT ![r] = pc[r]]
    /\ err' = [err EXCEPT ![r] = error]
    /\ calls' = [calls EXCEPT ![r] =
                    IF pc[r] \in RemoteStmts THEN Logged(@, RemoteCall(pc[r])) ELSE @]

\* a statement completes and control moves on
Goto(r, next) ==
    /\ pc' = [pc EXCEPT ![r] = next]
    /\ calls' = [calls EXCEPT ![r] =
                    IF pc[r] \in RemoteStmts THEN Logged(@, RemoteCall(pc[r])) ELSE @]
    /\ UNCHANGED << failedAt, err >>

\* ------------------------------------------------------------------- Init
Init ==
    /\ index \in { Absent } \cup
                 [ exists : { TRUE }, ready : BOOLEAN, dimension : PreexistingDims,
                   records : PreexistingRecords, creator : { "other" } ]
    /\ provisioned = FALSE
    /\ sentences_to_index \in SeqsUpTo(Records, MaxRecords)
    /\ pc = [r \in Runs |-> "list_indexes1"]
    /\ hasIdx = [r \in Runs |-> "unset"]
    /\ idx = [r \in Runs |-> 0]
    /\ vector_data = [r \in Runs |-> <<>>]
    /\ handle = [r \in Runs |-> "none"]
    /\ matches = [r \in Runs |-> 0]
    /\ polls = [r \in Runs |-> 0]
    /\ calls = [r \in Runs |-> <<>>]
    /\ failedAt = [r \in Runs |-> "none"]
    /\ err = [r \in Runs |-> "none"]
    /\ seen = [r \in Runs |-> NoSeen]
    /\ written = [r \in Runs |-> {}]

\* ---------------------------------------------------------------- actions

\* line 21: indexes = pc.list_indexes()
ListIndexes1(r) ==
    /\ pc[r] = "list_indexes1"
    /\ Goto(r, "has_index")
    /\ UNCHANGED << index, provisioned, sentences_to_index, hasIdx, idx, vector_data,
                    handle, matches, polls, seen, written >>

\* line 27: pc.has_index(index_name) and the branch on its result
HasIndex(r) ==
    /\ pc[r] = "has_index"
    /\ hasIdx' = [hasIdx EXCEPT ![r] = IF index.exists THEN "True" ELSE "False"]
    /\ seen' = [seen EXCEPT ![r].provisionedAtHas = provisioned]
    /\ Goto(r, AfterHasIndex(index.exists))
    /\ UNCHANGED << index, provisioned, sentences_to_index, idx, vector_data,
                    handle, matches, polls, written >>

\* lines 28-41: pc.create_index(name, dimension=768, metric, spec)
CreateIndex(r) ==
    /\ pc[r] = "create_index"
    /\ IF index.exists
       THEN /\ Raise(r, "AlreadyExists")
            /\ UNCHANGED index
       ELSE /\ index' = [ exists |-> TRUE, ready |-> FALSE, dimension |-> Dimension,
                          records |-> {}, creator |-> r ]
            /\ Goto(r, "describe_index")
    /\ UNCHANGED << provisioned, sentences_to_index, hasIdx, idx, vector_data,
                    handle, matches, polls, seen, written >>

\* lines 44-47: one evaluation of the while condition (and the sleep when not ready)
Poll(r) ==
    /\ pc[r] = "describe_index"
    /\ IF ~index.exists
       THEN /\ Raise(r, "NotFound")
            /\ UNCHANGED << polls, seen, provisioned >>
       ELSE /\ Goto(r, AfterPoll(index.ready))
            /\ polls' = [polls EXCEPT ![r] =
                            IF index.ready THEN 0 ELSE Min(@ + 1, PollCap)]
            /\ seen' = [seen EXCEPT ![r].readyPoll = index.ready,
                                    ![r].waited = @ \/ ~index.ready]
            /\ provisioned' = (provisioned \/ index.ready)
    /\ UNCHANGED << index, sentences_to_index, hasIdx, idx, vector_data,
                    handle, matches, written >>

\* line 49: indexes = pc.list_indexes(); lines 65-67: vector_data = [] and loop entry
ListIndexes2(r) ==
    /\ pc[r] = "list_indexes2"
    /\ vector_data' = [vector_data EXCEPT ![r] = <<>>]
    /\ idx' = [idx EXCEPT ![r] = 0]
    /\ Goto(r, AfterEmbed(0))
    /\ UNCHANGED << index, provisioned, sentences_to_index, hasIdx,
                    handle, matches, polls, seen, written >>

\* lines 67-75: one iteration of the for loop
Embed(r) ==
    /\ pc[r] = "encode"
    /\ LET sentence == sentences_to_index[idx[r] + 1]
       IN  vector_data' = [vector_data EXCEPT ![r] = AppendVector(@, VectorInfo(sentence))]
    /\ idx' = [idx EXCEPT ![r] = @ + 1]
    /\ Goto(r, AfterEmbed(idx[r] + 1))
    /\ UNCHANGED << index, provisioned, sentences_to_index, hasIdx,
                    handle, matches, polls, seen, written >>

\* lines 79-81: index = pc.Index(index_name); index.upsert(vectors=vector_data, namespace)
Upsert(r) ==
    /\ pc[r] = "upsert"
    /\ handle' = [handle EXCEPT ![r] = index_name]
    /\ seen' = [seen EXCEPT ![r].upsertDim = index.dimension]
    /\ IF ~index.exists
       THEN /\ Raise(r, "NotFound")
            /\ UNCHANGED << index, written >>
       ELSE IF BatchDims(vector_data[r]) \subseteq { index.dimension }
       THEN /\ index' = [index EXCEPT !.records = UpsertRecords(@, vector_data[r])]
            /\ written' = [written EXCEPT ![r] = UpsertRecords({}, vector_data[r])]
            /\ Goto(r, "stats")
       ELSE /\ Raise(r, "DimensionMismatch")
            /\ UNCHANGED << index, written >>
    /\ UNCHANGED << provisioned, sentences_to_index, hasIdx, idx, vector_data,
                    matches, polls >>

\* line 84: stats = index.describe_index_stats()
Stats(r) ==
    /\ pc[r] = "stats"
    /\ IF index.exists THEN Goto(r, "encode_query") ELSE Raise(r, "NotFound")
    /\ UNCHANGED << index, provisioned, sentences_to_index, hasIdx, idx, vector_data,
                    handle, matches, polls, seen, written >>

\* line 92: search_embedding = model.encode(search_text).tolist()
EncodeQuery(r) ==
    /\ pc[r] = "encode_query"
    /\ Goto(r, "query")
    /\ UNCHANGED << index, provisioned, sentences_to_index, hasIdx, idx, vector_data,
                    handle, matches, polls, seen, written >>

\* lines 95-115: index.query(vector, top_k=3, namespace, ...) and the printing of the matches
Query(r) ==
    /\ pc[r] = "query"
    /\ IF index.exists
       THEN /\ matches' = [matches EXCEPT ![r] = Min(TopK, Cardinality(index.records))]
            /\ Goto(r, "delete_index")
       ELSE /\ Raise(r, "NotFound")
            /\ UNCHANGED matches
    /\ UNCHANGED << index, provisioned, sentences_to_index, hasIdx, idx, vector_data,
                    handle, polls, seen, written >>

\* line 130: pc.delete_index(index_name)
DeleteIndex(r) ==
    /\ pc[r] = "delete_index"
    /\ IF index.exists
       THEN /\ index' = Absent
            /\ provisioned' = FALSE
            /\ seen' = [seen EXCEPT ![r].deletedCreator = index.creator,
                                    ![r].deletedRecords = index.records]
            /\ Goto(r, "done")
       ELSE /\ Raise(r, "NotFound")
            /\ UNCHANGED << index, provisioned, seen >>
    /\ UNCHANGED << sentences_to_index, hasIdx, idx, vector_data,
                    handle, matches, polls, written >>

\* a remote call fails in transport or is refused by the provider for a reason
\* of its own (quota, credentials); the request has no effect on the provider
RemoteFailure(r) ==
    /\ pc[r] \in RemoteStmts
    /\ Raise(r, "RemoteError")
    /\ handle' = [handle EXCEPT ![r] = IF pc[r] = "upsert" THEN index_name ELSE @]
    /\ seen' = [seen EXCEPT ![r].upsertDim = IF pc[r] = "upsert" THEN index.dimension ELSE @]
    /\ UNCHANGED << index, provisioned, sentences_to_index, hasIdx, idx, vector_data,
                    matches, polls, written >>

\* model.encode raises
EmbeddingFailure(r) ==
    /\ pc[r] \in LocalStmts
    /\ Raise(r, "EmbeddingError")
    /\ UNCHANGED << index, provisioned, sentences_to_index, hasIdx, idx, vector_data,
                    handle, matches, polls, seen, written >>

\* the provider finishes creating the index
ProviderReady ==
    /\ index.exists
    /\ ~index.ready
    /\ index' = [index EXCEPT !.ready = TRUE]
    /\ UNCHANGED << provisioned, sentences_to_index, pc, hasIdx, idx, vector_data,
                    handle, matches, polls, calls, failedAt, err, seen, written >>

\* the statements of a run that complete normally
RunStep(r) ==
    \/ ListIndexes1(r)
    \/ HasIndex(r)
    \/ CreateIndex(r)
    \/ Poll(r)
    \/ ListIndexes2(r)
    \/ Embed(r)
    \/ Upsert(r)
    \/ Stats(r)
    \/ EncodeQuery(r)
    \/ Query(r)
    \/ DeleteIndex(r)

Next ==
    \/ \E r \in Runs : RunStep(r)
    \/ \E r \in Runs : RemoteFailure(r)
    \/ \E r \in Runs : EmbeddingFailure(r)
    \/ ProviderReady

Spec == Init /\ [][Next]_vars

\* the interpreter keeps executing a run that has not ended, and the provider
\* finishes a creation it has started
FairSpec ==
    /\ Init
    /\ [][Next]_vars
    /\ \A r \in Runs : WF_vars(RunStep(r))
    /\ WF_vars(ProviderReady)

\* ------------------------------------------------------------- properties

Range(f) == { f[i] : i \in DOMAIN f }

Issued(r, call) == call \in Range(calls[r])

\* statements reached only after the for loop has completed
AfterLoop == { "upsert", "stats", "encode_query", "query", "delete_index", "done" }

\* C1: create_index is issued only by a run whose has_index returned false, and
\* a run that checks has_index after a provisioning completed, with no delete
\* since, issues no create_index and binds its handle to the same index name.
C1_ProvisionIdempotent ==
    \A r \in Runs :
        /\ Issued(r, "create_index") => hasIdx[r] = "False"
        /\ seen[r].provisionedAtHas => ~Issued(r, "create_index")
        /\ seen[r].provisionedAtHas /\ handle[r] # "none" => handle[r] = index_name

C1_Witness ==
    \E r \in Runs :
        /\ seen[r].provisionedAtHas
        /\ seen[r].readyPoll
        /\ handle[r] = index_name
        /\ pc[r] = "stats"

\* C2: a run whose readiness wait has polled not-ready for maxWait is in a
\* timed-out outcome at the wait, and so never goes on to upsert or query.
C2_TimesOut ==
    \A r \in Runs :
        polls[r] >= MaxWaitPolls => pc[r] = "failed" /\ failedAt[r] = "describe_index"

\* C3: once the embedding loop has completed, vector_data has one entry per
\* input record, in input order: entry i carries the id of record i and that
\* record's text as metadata.sentence.
C3_EmbedPreservesOrder ==
    \A r \in Runs :
        (pc[r] \in AfterLoop \/ failedAt[r] \in AfterLoop) =>
            /\ Len(vector_data[r]) = Len(sentences_to_index)
            /\ \A i \in 1 .. Len(sentences_to_index) :
                  /\ vector_data[r][i].id = sentences_to_index[i].id
                  /\ vector_data[r][i].sentence = sentences_to_index[i].text

C3_Witness ==
    \E r \in Runs :
        /\ pc[r] = "upsert"
        /\ Len(sentences_to_index) = 2
        /\ sentences_to_index[1].id # sentences_to_index[2].id
        /\ Len(vector_data[r]) = 2

\* C4: a run whose embedding call raised has issued no upsert request and
\* has written no record, whatever it had embedded before.
C4_NoPartialIngest ==
    \A r \in Runs :
        failedAt[r] = "encode" =>
            /\ pc[r] = "failed"
            /\ ~Issued(r, "upsert")
            /\ written[r] = {}

C4_Witness ==
    \E r \in Runs :
        /\ failedAt[r] = "encode"
        /\ err[r] = "EmbeddingError"
        /\ Len(vector_data[r]) >= 1
        /\ index.exists

\* C5: every upsert request issued against an existing index carries only
\* vectors whose length is the declared dimension of that index.
C5_DimensionChecked ==
    \A r \in Runs :
        Issued(r, "upsert") /\ seen[r].upsertDim # 0 =>
            BatchDims(vector_data[r]) \subseteq { seen[r].upsertDim }

\* C6: delete_index of an index that is already absent is not an error.
C6_TeardownIdempotent ==
    \A r \in Runs : ~(failedAt[r] = "delete_index" /\ err[r] = "NotFound")

\* C7: a failure of upsert, describe_index_stats or query ends the run at that
\* call: the failing step leaves the provider's index as it was, the failing
\* call is the last one the run issues, and delete_index is not among its calls.
C7_NoRollback ==
    [][\A r \in Runs :
          /\ (failedAt[r] = "none" /\ failedAt'[r] \in { "upsert", "stats", "query" }) =>
                /\ pc'[r] = "failed"
                /\ index' = index
                /\ ~Issued(r, "delete_index")'
                /\ calls'[r][Len(calls'[r])] = RemoteCall(failedAt'[r])
          /\ failedAt[r] \in { "upsert", "stats", "query" } =>
                /\ pc'[r] = pc[r]
                /\ calls'[r] = calls[r]
                /\ failedAt'[r] = failedAt[r]]_vars

C7_Witness ==
    \E r \in Runs :
        /\ pc[r] = "failed"
        /\ failedAt[r] = "stats"
        /\ written[r] # {}
        /\ index.exists
        /\ written[r] \subseteq index.records
        /\ \A q \in Runs : pc[q] \in { "failed", "done" }

\* C8: the calls has_index, create_index, describe_index, upsert, query and
\* delete_index of a run occur in that order, each at most once (the polls
\* form one block), and upsert and query only after a poll of the run saw
\* ready = true.
CallRank(call) ==
    CASE call = "has_index" -> 1
      [] call = "create_index" -> 2
      [] call = "describe_index" -> 3
      [] call = "upsert" -> 4
      [] call = "query" -> 5
      [] call = "delete_index" -> 6
      [] OTHER -> 0

C8_CallOrder ==
    \A r \in Runs :
        /\ \A i, j \in DOMAIN calls[r] :
              (i < j /\ CallRank(calls[r][i]) # 0 /\ CallRank(calls[r][j]) # 0) =>
                  CallRank(calls[r][i]) < CallRank(calls[r][j])
        /\ (Issued(r, "upsert") \/ Issued(r, "query")) =>
              /\ seen[r].readyPoll
              /\ Issued(r, "describe_index")
              /\ Issued(r, "has_index")
        /\ Issued(r, "delete_index") => Issued(r, "query")

C8_Witness ==
    \E r \in Runs :
        /\ pc[r] = "done"
        /\ Issued(r, "create_index")
        /\ seen[r].waited

\* C9: when the provider finishes every creation and no call fails, every run
\* ends after its delete_index and the index is absent from then on.
C9_Terminates ==
    ([](\A r \in Runs : failedAt[r] = "none")) =>
        <>[](\A r \in Runs : pc[r] = "done" /\ Issued(r, "delete_index") /\ ~index.exists)

C9_Witness ==
    /\ \A r \in Runs : pc[r] = "done" /\ Issued(r, "upsert") /\ Issued(r, "query")
    /\ \E r \in Runs : seen[r].waited
    /\ ~index.exists

\* C10: a run whose has_index returned true deletes no index.
C10_DeletesOnlyOwn ==
    \A r \in Runs : hasIdx[r] = "True" => seen[r].deletedCreator = "none"

====
